---- MODULE Spec2Model ----
(***************************************************************************)
(* Rate limiter (app/middleware/rate_limiter.py), TTL cache                *)
(* (app/utils/cache.py) and the analyze_sector handler (app/main.py) of    *)
(* the Trade Opportunities API.                                            *)
(*                                                                         *)
(* Time is a discrete clock `now`; every datetime.utcnow() of the code     *)
(* reads it, and it may advance between any two steps.  A `with lock:`     *)
(* block of RateLimitEntry or InMemoryCache touches only the data its lock *)
(* guards and reads the clock once, so it is one step; the unguarded reads *)
(* of RateLimiter._limits are steps of their own.  SpecCacheConc and       *)
(* SpecLocks spell the locks out: taking a lock is a step of its own.      *)
(***************************************************************************)
EXTENDS Integers, Sequences, FiniteSets, TLC

\* ------------------------------------------------------------- bounds
\* settings.rate_limit_per_hour as configured for the run (10 by default).
Limit == 2
\* timedelta(hours=1), in clock ticks.
Hour == 2
\* The clock stops advancing here.
MaxTime == Hour + 1
\* Calls made in one run, over all callers.
MaxCalls == 3

Threads == {"t1", "t2"}
Identifiers == {"ip1", "ip2"}

\* "no value": a header that is not set, a local not yet assigned.
None == 0 - 1

VARIABLES
    now,         \* the wall clock, datetime.utcnow()
    limits,      \* RateLimiter._limits: identifier -> entry (0: not in the dict)
    entries,     \* the RateLimitEntry objects ever constructed, by address
    rlock,       \* RateLimiter._lock: the thread holding it, or "free"
    pc,          \* each thread's position in check_rate_limit / get_rate_limit_headers
    ident,       \* each call's `identifier` argument
    entry,       \* each call's local `entry`
    pre,         \* the identifier's window when the call began (history)
    checked_at,  \* can_make_request's local `now`
    decision,    \* "Accepted" | "Rejected" | "Headers" once the call has its result
    reset_time,  \* the reset time the call read (None: not read)
    remaining,   \* the remaining quota the call read (None: not read)
    calls,       \* calls begun so far
    budget,      \* calls the run allows
    cache,       \* InMemoryCache._cache: key -> CacheEntry
    last,        \* the latest cache operation: its arguments and what it returned
    args,        \* generate_key: the positional arguments of two calls
    kwargs,      \* generate_key: the keyword arguments of the two calls
    keys,        \* generate_key: the two keys returned (<<>>: not yet called)
    hpc,         \* analyze_sector: each request's position in the handler
    client,      \* analyze_sector: client_ip
    sector,      \* analyze_sector: the `sector` path parameter
    market_data, \* analyze_sector: what collect_market_data returned
    analysis_result, \* analyze_sector: what analyze_market_data returned
    response,    \* the HTTP response the client receives
    trace,       \* the calls the request has made, in order (history)
    cache0,      \* the cache store when the request arrived (history)
    win0,        \* the client's window when the request arrived (history)
    cache_lock,  \* InMemoryCache._lock: the thread holding it, or "free"
    cpc,         \* each thread's position in its cache operation
    cop,         \* each thread's cache operation and its arguments
    cret,        \* what the cache operation returned
    expired_keys, \* cleanup_expired: the local expired_keys
    cops,        \* cache operations begun so far
    elock,       \* RateLimitEntry.lock of each entry: the thread holding it, or "free"
    retry        \* the reset time of the latest rejection not followed by an
                 \* accepted request (history; None: there is none)

lvars == <<limits, entries, rlock, pc, ident, entry, pre, checked_at,
           decision, reset_time, remaining, calls>>
cvars == <<cache, last>>
kvars == <<args, kwargs, keys>>
avars == <<hpc, client, sector, market_data, analysis_result, response, trace,
           cache0, win0>>
xvars == <<cache_lock, cpc, cop, cret, expired_keys, cops>>
\* What only the specifications further down use.
rest == <<budget, avars, xvars, elock, retry>>
\* What the handler never touches, and what the concurrent cache never touches.
notApp == <<budget, xvars, elock, retry>>
notConc == <<budget, avars, elock, retry>>
vars == <<now, lvars, cvars, kvars, rest>>

\* What the rate limiter never touches.
outside == <<cvars, kvars, rest>>

locals == <<ident, entry, pre, checked_at, decision, reset_time, remaining>>

\* ------------------------------------------------- RateLimitEntry
Max(a, b) == IF a >= b THEN a ELSE b

MinOf(reqs) ==
    CHOOSE m \in {reqs[i] : i \in DOMAIN reqs} :
        \A i \in DOMAIN reqs : m <= reqs[i]

\* RateLimitEntry.__init__
NewEntry(limit_per_hour) == [limit |-> limit_per_hour, requests |-> <<>>]

\* [req_time for req_time in self.requests if req_time > cutoff], cutoff = now - 1h
PruneRequests(reqs, t) == SelectSeq(reqs, LAMBDA req_time : req_time > t - Hour)

\* can_make_request: the window it leaves behind, and its result
WindowUnpruned(reqs, t) == reqs
WindowAfterCheck(reqs, t) == PruneRequests(reqs, t)

HasCapacityOffByOne(reqs, limit) == Len(reqs) <= limit
HasCapacity(reqs, limit) == Len(reqs) < limit

\* record_request
RecordedAll(ents, e, t) ==
    [x \in DOMAIN ents |-> [ents[x] EXCEPT !.requests = Append(@, t)]]
Recorded(ents, e, t) == [ents EXCEPT ![e].requests = Append(@, t)]

\* get_remaining: prunes, then max(0, limit - len)
RemainingUnfloored(reqs, limit) == limit - Len(reqs)
RemainingOf(reqs, limit) == Max(0, limit - Len(reqs))

\* get_reset_time: no pruning; min(self.requests) + 1h, or utcnow() + 1h
ResetTimeOf(reqs, t) == IF reqs # <<>> THEN MinOf(reqs) + Hour ELSE t + Hour

\* ------------------------------------------------- RateLimiter
Registered(id) == limits[id] # 0

\* The window of an identifier as the registry holds it.
Window(id) == IF Registered(id) THEN entries[limits[id]].requests ELSE <<>>

\* `if identifier not in self._limits` under self._lock (the second check)
AlwaysAbsent(id) == TRUE
StillAbsent(id) == ~Registered(id)

Reset(t) ==
    /\ ident' = [ident EXCEPT ![t] = "-"]
    /\ entry' = [entry EXCEPT ![t] = 0]
    /\ pre' = [pre EXCEPT ![t] = <<>>]
    /\ checked_at' = [checked_at EXCEPT ![t] = None]
    /\ decision' = [decision EXCEPT ![t] = "-"]
    /\ reset_time' = [reset_time EXCEPT ![t] = None]
    /\ remaining' = [remaining EXCEPT ![t] = None]

Goto(t, label) == pc' = [pc EXCEPT ![t] = label]

Begin(t, id) ==
    /\ pc[t] = "idle"
    /\ calls < budget
    /\ calls' = calls + 1
    /\ ident' = [ident EXCEPT ![t] = id]
    /\ pre' = [pre EXCEPT ![t] = Window(id)]

\* A caller enters check_rate_limit(identifier):
\* if identifier not in self._limits:   (no lock held)
StartCheckOp(t) ==
    /\ \E id \in Identifiers :
        /\ Begin(t, id)
        /\ Goto(t, IF Registered(id) THEN "fetch" ELSE "lock")
    /\ UNCHANGED <<now, limits, entries, rlock, entry, checked_at, decision,
                   reset_time, remaining>>
StartCheck(t) == StartCheckOp(t) /\ UNCHANGED outside

\* with self._lock:   (blocks while another thread holds it)
AcquireRegistryLockOp(t) ==
    /\ pc[t] = "lock"
    /\ rlock = "free"
    /\ rlock' = t
    /\ Goto(t, "create")
    /\ UNCHANGED <<now, limits, entries, calls>>
    /\ UNCHANGED locals
AcquireRegistryLock(t) == AcquireRegistryLockOp(t) /\ UNCHANGED outside

\* if identifier not in self._limits: self._limits[identifier] = RateLimitEntry(...)
CreateEntryOp(t) ==
    /\ pc[t] = "create"
    /\ rlock = t
    /\ IF StillAbsent(ident[t])
       THEN /\ entries' = Append(entries, NewEntry(Limit))
            /\ limits' = [limits EXCEPT ![ident[t]] = Len(entries) + 1]
       ELSE UNCHANGED <<limits, entries>>
    /\ rlock' = "free"
    /\ Goto(t, "fetch")
    /\ UNCHANGED <<now, calls>>
    /\ UNCHANGED locals
CreateEntry(t) == CreateEntryOp(t) /\ UNCHANGED outside

\* entry = self._limits[identifier]
FetchEntryOp(t) ==
    /\ pc[t] = "fetch"
    /\ entry' = [entry EXCEPT ![t] = limits[ident[t]]]
    /\ Goto(t, "can")
    /\ UNCHANGED <<now, limits, entries, rlock, ident, pre, checked_at,
                   decision, reset_time, remaining, calls>>
FetchEntry(t) == FetchEntryOp(t) /\ UNCHANGED outside

\* if not entry.can_make_request():
CanMakeRequestOp(t) ==
    /\ pc[t] = "can"
    /\ LET e == entry[t]
           kept == WindowAfterCheck(entries[e].requests, now)
       IN /\ entries' = [entries EXCEPT ![e].requests = kept]
          /\ Goto(t, IF HasCapacity(kept, entries[e].limit)
                     THEN "record" ELSE "reset")
    /\ checked_at' = [checked_at EXCEPT ![t] = now]
    /\ UNCHANGED <<now, limits, rlock, ident, entry, pre, decision,
                   reset_time, remaining, calls>>
CanMakeRequest(t) == CanMakeRequestOp(t) /\ UNCHANGED outside

\* reset_time = entry.get_reset_time(); raise HTTPException(429, ...)
RejectWithResetTimeOp(t) ==
    /\ pc[t] = "reset"
    /\ reset_time' = [reset_time EXCEPT
                        ![t] = ResetTimeOf(entries[entry[t]].requests, now)]
    /\ remaining' = [remaining EXCEPT ![t] = 0]
    /\ decision' = [decision EXCEPT ![t] = "Rejected"]
    /\ Goto(t, "done")
    /\ UNCHANGED <<now, limits, entries, rlock, ident, entry, pre, checked_at,
                   calls>>
RejectWithResetTime(t) == RejectWithResetTimeOp(t) /\ UNCHANGED outside

\* entry.record_request()
RecordRequestOp(t) ==
    /\ pc[t] = "record"
    /\ entries' = Recorded(entries, entry[t], now)
    /\ Goto(t, "log")
    /\ UNCHANGED <<now, limits, rlock, calls>>
    /\ UNCHANGED locals
RecordRequest(t) == RecordRequestOp(t) /\ UNCHANGED outside

\* logger.info(f"... Remaining: {entry.get_remaining()}"); return
LogRemainingOp(t) ==
    /\ pc[t] = "log"
    /\ LET e == entry[t]
           kept == PruneRequests(entries[e].requests, now)
       IN /\ entries' = [entries EXCEPT ![e].requests = kept]
          /\ remaining' = [remaining EXCEPT
                             ![t] = RemainingOf(kept, entries[e].limit)]
    /\ decision' = [decision EXCEPT ![t] = "Accepted"]
    /\ Goto(t, "done")
    /\ UNCHANGED <<now, limits, rlock, ident, entry, pre, checked_at, reset_time,
                   calls>>
LogRemaining(t) == LogRemainingOp(t) /\ UNCHANGED outside

\* A caller enters get_rate_limit_headers(identifier):
\* if identifier not in self._limits: return {Limit, Remaining: limit}
\* entry = self._limits[identifier]
StartHeadersOp(t) ==
    /\ \E id \in Identifiers :
        /\ Begin(t, id)
        /\ IF Registered(id)
           THEN /\ entry' = [entry EXCEPT ![t] = limits[id]]
                /\ Goto(t, "h_remaining")
                /\ UNCHANGED <<decision, remaining>>
           ELSE /\ remaining' = [remaining EXCEPT ![t] = Limit]
                /\ decision' = [decision EXCEPT ![t] = "Headers"]
                /\ Goto(t, "done")
                /\ UNCHANGED entry
    /\ UNCHANGED <<now, limits, entries, rlock, checked_at, reset_time>>
StartHeaders(t) == StartHeadersOp(t) /\ UNCHANGED outside

\* "X-RateLimit-Remaining": str(entry.get_remaining())
HeadersRemainingOp(t) ==
    /\ pc[t] = "h_remaining"
    /\ LET e == entry[t]
           kept == PruneRequests(entries[e].requests, now)
       IN /\ entries' = [entries EXCEPT ![e].requests = kept]
          /\ remaining' = [remaining EXCEPT
                             ![t] = RemainingOf(kept, entries[e].limit)]
    /\ Goto(t, "h_reset")
    /\ UNCHANGED <<now, limits, rlock, ident, entry, pre, checked_at, decision,
                   reset_time, calls>>
HeadersRemaining(t) == HeadersRemainingOp(t) /\ UNCHANGED outside

\* "X-RateLimit-Reset": entry.get_reset_time().isoformat()
HeadersResetTimeOp(t) ==
    /\ pc[t] = "h_reset"
    /\ reset_time' = [reset_time EXCEPT
                        ![t] = ResetTimeOf(entries[entry[t]].requests, now)]
    /\ decision' = [decision EXCEPT ![t] = "Headers"]
    /\ Goto(t, "done")
    /\ UNCHANGED <<now, limits, entries, rlock, ident, entry, pre, checked_at,
                   remaining, calls>>
HeadersResetTime(t) == HeadersResetTimeOp(t) /\ UNCHANGED outside

\* The call returns (or its HTTPException propagates) to the caller.
ReturnOp(t) ==
    /\ pc[t] = "done"
    /\ Goto(t, "idle")
    /\ Reset(t)
    /\ UNCHANGED <<now, limits, entries, rlock, calls>>
Return(t) == ReturnOp(t) /\ UNCHANGED outside

\* Time passes.
Tick ==
    /\ now < MaxTime
    /\ now' = now + 1
    /\ UNCHANGED <<lvars, cvars, kvars, rest>>

\* ------------------------------------------------- InMemoryCache
\* InMemoryCache(): default_ttl = 3600 seconds, in clock ticks.
DefaultTtl == 2
\* The largest ttl a caller passes; 0 stands for a ttl that is omitted (None)
\* or zero, which `ttl or self.default_ttl` does not tell apart.
MaxTtl == 2
\* Cache operations made in one run.
MaxOps == 4

Keys == {"k1", "k2"}
Values == {"a", "b"}

\* CacheEntry.__init__: expires_at = utcnow() + timedelta(seconds=ttl_seconds)
CacheEntry(value, ttl_seconds, t) ==
    [value |-> value, expires_at |-> t + ttl_seconds]

\* CacheEntry.is_expired: utcnow() > self.expires_at
IsExpiredNever(e, t) == FALSE
IsExpired(e, t) == t > e.expires_at

Without(c, ks) == [x \in DOMAIN c \ ks |-> c[x]]

\* get: the value returned ("None": absent) and the store it leaves
GetResult(c, key, t) ==
    IF key \in DOMAIN c /\ ~IsExpired(c[key], t) THEN c[key].value ELSE "None"

AfterGet(c, key, t) ==
    IF key \in DOMAIN c /\ IsExpired(c[key], t) THEN Without(c, {key}) ELSE c

\* set: ttl = ttl or self.default_ttl; self._cache[key] = CacheEntry(value, ttl)
EffectiveTtl(ttl) == IF ttl = 0 THEN DefaultTtl ELSE ttl

AfterSetKeepExpiry(c, key, value, ttl, t) ==
    [x \in DOMAIN c \cup {key} |->
        IF x # key THEN c[x]
        ELSE IF key \in DOMAIN c THEN [c[key] EXCEPT !.value = value]
        ELSE CacheEntry(value, EffectiveTtl(ttl), t)]
AfterSet(c, key, value, ttl, t) ==
    [x \in DOMAIN c \cup {key} |->
        IF x = key THEN CacheEntry(value, EffectiveTtl(ttl), t) ELSE c[x]]

\* delete
AfterDelete(c, key) == Without(c, {key})

\* cleanup_expired: expired_keys, deleted one by one
ExpiredKeys(c, t) == {key \in DOMAIN c : IsExpired(c[key], t)}

Op(op, key, value, ttl, ret, removed, had) ==
    [op |-> op, key |-> key, value |-> value, ttl |-> ttl, at |-> now,
     ret |-> ret, removed |-> removed, had |-> had, n |-> last.n + 1]

CacheGet ==
    /\ last.n < MaxOps
    /\ \E key \in Keys :
        /\ last' = Op("get", key, "-", 0, GetResult(cache, key, now), 0,
                      key \in DOMAIN cache)
        /\ cache' = AfterGet(cache, key, now)
    /\ UNCHANGED <<now, lvars, kvars, rest>>

CacheSet ==
    /\ last.n < MaxOps
    /\ \E key \in Keys, value \in Values, ttl \in 0..MaxTtl :
        /\ last' = Op("set", key, value, ttl, "None", 0, key \in DOMAIN cache)
        /\ cache' = AfterSet(cache, key, value, ttl, now)
    /\ UNCHANGED <<now, lvars, kvars, rest>>

CacheDelete ==
    /\ last.n < MaxOps
    /\ \E key \in Keys :
        /\ last' = Op("delete", key, "-", 0, "None", 0, key \in DOMAIN cache)
        /\ cache' = AfterDelete(cache, key)
    /\ UNCHANGED <<now, lvars, kvars, rest>>

CacheClear ==
    /\ last.n < MaxOps
    /\ last' = Op("clear", "-", "-", 0, "None", 0, FALSE)
    /\ cache' = Without(cache, DOMAIN cache)
    /\ UNCHANGED <<now, lvars, kvars, rest>>

CacheCleanupExpired ==
    /\ last.n < MaxOps
    /\ last' = Op("cleanup_expired", "-", "-", 0, "None",
                  Cardinality(ExpiredKeys(cache, now)), FALSE)
    /\ cache' = Without(cache, ExpiredKeys(cache, now))
    /\ UNCHANGED <<now, lvars, kvars, rest>>

CacheInit ==
    /\ cache = [x \in {} |-> 0]
    /\ last = [op |-> "-", key |-> "-", value |-> "-", ttl |-> 0, at |-> 0,
               ret |-> "None", removed |-> 0, had |-> FALSE, n |-> 0]

NextCache ==
    \/ Tick
    \/ CacheGet
    \/ CacheSet
    \/ CacheDelete
    \/ CacheClear
    \/ CacheCleanupExpired

\* ------------------------------------------------- generate_key
\* An argument is a string, here a non-empty sequence of characters; str(arg)
\* of a string is the string.  A call passes the namespace and up to MaxArgs - 1
\* further parts.
MaxChars == 3
MaxArgs == 2

Alphabet == {"a", ":"}

RECURSIVE StringsOf(_)
StringsOf(n) ==
    IF n = 1 THEN {<<ch>> : ch \in Alphabet}
    ELSE LET shorter == StringsOf(n - 1)
         IN shorter \cup {Append(s, ch) : s \in shorter, ch \in Alphabet}

RECURSIVE ListsOf(_, _)
ListsOf(S, n) ==
    IF n = 1 THEN {<<x>> : x \in S}
    ELSE LET shorter == ListsOf(S, n - 1)
         IN shorter \cup {Append(l, x) : l \in shorter, x \in S}

\* **kwargs with the one name k: no keyword argument, or k=<a string>
KwName == <<"k">>
KwArgSets == {<<>>} \cup {<<v>> : v \in StringsOf(1)}

\* ":".join(key_parts)
RECURSIVE Join(_)
Join(parts) ==
    IF parts = <<>> THEN <<>>
    ELSE IF Len(parts) = 1 THEN parts[1]
    ELSE parts[1] \o <<":">> \o Join(Tail(parts))

\* hashlib.md5(key_string.encode()).hexdigest(), taken to be free of
\* collisions: the digest stands for the string digested.
Md5Hex(key_string) == [md5 |-> key_string]

\* key_parts = [str(arg) for arg in args]
\*           + [f"{k}={v}" for k, v in sorted(kwargs.items())]
KeyParts(a, kw) ==
    a \o [i \in DOMAIN kw |-> KwName \o <<"=">> \o kw[i]]

generate_key(a, kw) == Md5Hex(Join(KeyParts(a, kw)))

GenerateKeys ==
    /\ keys = <<>>
    /\ keys' = <<generate_key(args[1], kwargs[1]), generate_key(args[2], kwargs[2])>>
    /\ UNCHANGED <<now, lvars, cvars, args, kwargs, rest>>

KeyIdle ==
    /\ args = <<<<>>, <<>>>>
    /\ kwargs = <<<<>>, <<>>>>
    /\ keys = <<>>

\* ------------------------------------------------- validators
\* A sector name is a sequence of characters.
UpperCase == <<"A", "B", "C", "D", "E", "F", "G", "H", "I", "J", "K", "L", "M",
               "N", "O", "P", "Q", "R", "S", "T", "U", "V", "W", "X", "Y", "Z">>
LowerCase == <<"a", "b", "c", "d", "e", "f", "g", "h", "i", "j", "k", "l", "m",
               "n", "o", "p", "q", "r", "s", "t", "u", "v", "w", "x", "y", "z">>
Digits == {"0", "1", "2", "3", "4", "5", "6", "7", "8", "9"}
Letters(alphabet) == {alphabet[i] : i \in DOMAIN alphabet}

IsSpace(ch) == ch \in {" ", "\t", "\n"}
IsWord(ch) == ch \in Letters(LowerCase) \cup Letters(UpperCase) \cup Digits \cup {"_"}

\* str.lower()
LowerChar(ch) ==
    IF \E i \in DOMAIN UpperCase : UpperCase[i] = ch
    THEN LowerCase[CHOOSE i \in DOMAIN UpperCase : UpperCase[i] = ch]
    ELSE ch
Lower(text) == [i \in DOMAIN text |-> LowerChar(text[i])]

\* str.strip()
RECURSIVE LStrip(_)
LStrip(text) ==
    IF text # <<>> /\ IsSpace(text[1]) THEN LStrip(Tail(text)) ELSE text
RECURSIVE RStrip(_)
RStrip(text) ==
    IF text # <<>> /\ IsSpace(text[Len(text)])
    THEN RStrip(SubSeq(text, 1, Len(text) - 1)) ELSE text
Strip(text) == RStrip(LStrip(text))

\* re.sub(r'[^a-z0-9\s\-]', '', sanitized)
KeepAllowed(text) ==
    SelectSeq(text, LAMBDA ch :
        ch \in Letters(LowerCase) \cup Digits \cup {"-"} \/ IsSpace(ch))

\* re.sub(r'\s+', ' ', sanitized)
RECURSIVE CollapseSpaces(_)
CollapseSpaces(text) ==
    IF text = <<>> THEN <<>>
    ELSE IF IsSpace(text[1]) THEN <<" ">> \o CollapseSpaces(LStrip(text))
    ELSE <<text[1]>> \o CollapseSpaces(Tail(text))

\* sanitized.replace(' ', '-')
Hyphenate(text) == [i \in DOMAIN text |-> IF text[i] = " " THEN "-" ELSE text[i]]

\* sanitize_sector_name: the name it returns, and whether it raises ValueError
sanitize_sector_name(name) ==
    Hyphenate(CollapseSpaces(KeepAllowed(Strip(Lower(name)))))
SanitizeRaises(name) == name = <<>> \/ sanitize_sector_name(name) = <<>>

\* validate_sector_length(sector, max_length = 50): TRUE when it returns an
\* error message, FALSE when it returns None.  The 50 characters are scaled
\* down as the hour is.
max_length == 4
validate_sector_length(name) == Len(name) > max_length

\* re.search of a literal pattern
Contains(text, pattern) ==
    \E i \in 1..(Len(text) - Len(pattern) + 1) :
        SubSeq(text, i, i + Len(pattern) - 1) = pattern

\* re.search(r'import\s+', text)
MatchesImport(text) ==
    \E i \in 1..(Len(text) - 6) :
        /\ SubSeq(text, i, i + 5) = <<"i", "m", "p", "o", "r", "t">>
        /\ IsSpace(text[i + 6])

\* re.search(r'on\w+\s*=', text)
MatchesOnHandler(text) ==
    \E i \in 1..Len(text), j \in 1..Len(text), k \in 1..Len(text) :
        /\ i + 2 <= j /\ j <= k /\ k < Len(text)
        /\ SubSeq(text, i, i + 1) = <<"o", "n">>
        /\ \A x \in (i + 2)..j : IsWord(text[x])
        /\ \A x \in (j + 1)..k : IsSpace(text[x])
        /\ text[k + 1] = "="

DangerousLiterals ==
    { <<"<", "s", "c", "r", "i", "p", "t">>,
      <<"j", "a", "v", "a", "s", "c", "r", "i", "p", "t", ":">>,
      <<"e", "v", "a", "l", "(">>,
      <<"e", "x", "e", "c", "(">>,
      <<"_", "_", "i", "m", "p", "o", "r", "t", "_", "_">> }

\* is_safe_input: no dangerous pattern is found in text.lower()
is_safe_input(text) ==
    LET text_lower == Lower(text)
    IN /\ \A pattern \in DangerousLiterals : ~Contains(text_lower, pattern)
       /\ ~MatchesImport(text_lower)
       /\ ~MatchesOnHandler(text_lower)

\* ------------------------------------------------- analyze_sector: its data
\* The sector names clients send: two spellings of one sector, another
\* sector, a name with nothing left after sanitization, an unsafe name and a
\* name one character too long.
Sectors ==
    { <<"a", "i">>,
      <<"A", "I", " ">>,
      <<"x">>,
      <<"!">>,
      <<"e", "v", "a", "l", "(">>,
      [i \in 1..(max_length + 1) |-> "a"] }

\* cache.generate_key("analysis", sanitized_sector)
AnalysisKey(sanitized_sector) ==
    generate_key(<< <<"a", "n", "a", "l", "y", "s", "i", "s">>,
                    sanitized_sector >>, <<>>)

\* settings.cache_ttl_seconds = 3600: one hour, in clock ticks
cache_ttl_seconds == Hour

\* `if cached_report:` takes a value that is not None and not empty
NeverTruthy(value) == FALSE
Truthy(value) == value \notin {"None", ""}

\* collect_market_data: the results of the web search, or _get_fallback_data
\* when the search failed or found nothing; no exception leaves it
collect_market_data(name, found) ==
    [sector |-> name,
     results |-> IF found THEN "search results" ELSE "fallback data"]

\* analyze_market_data: the model's insights on market_data.results, or
\* _get_fallback_analysis when _generate_insights raised; no exception
\* leaves it
analyze_market_data(data, answered) ==
    [sector |-> data.sector,
     insights |-> IF ~answered THEN "fallback analysis"
                  ELSE IF data.results = "search results" THEN "insights"
                  ELSE "insights on fallback data"]

\* report_generator.generate_report: the markdown report of the insights
generate_report(analysis) ==
    CASE analysis.insights = "insights" -> "report"
      [] analysis.insights = "insights on fallback data" ->
            "report on fallback data"
      [] OTHER -> "report of the fallback analysis"

\* The reports made without the search results or without the model's answer.
FallbackReports == {"report on fallback data", "report of the fallback analysis"}

\* The X-RateLimit-* headers; None: the header is not set.
RateLimitHeaders(limit, remain, reset) ==
    [limit |-> limit, remaining |-> remain, reset |-> reset]
NoHeaders == RateLimitHeaders(None, None, None)

HTTPException(status_code, headers) ==
    [status_code |-> status_code, headers |-> headers]

\* AnalysisResponse returned by the handler, with the headers set on `response`
Ok(headers, report, message) ==
    [status |-> 200, headers |-> headers, report |-> report, message |-> message]

\* http_exception_handler: JSONResponse(status_code = exc.status_code,
\* content = ErrorResponse(...)); exc.headers is not passed on
http_exception_handler(exc) ==
    [status |-> exc.status_code, headers |-> NoHeaders, report |-> "None",
     message |-> "error"]

\* The handler's locals before a request arrives.
NoResponse ==
    [status |-> 0, headers |-> NoHeaders, report |-> "None", message |-> "-"]
NoData == [sector |-> <<>>, results |-> "-"]
NoAnalysis == [sector |-> <<>>, insights |-> "-"]

AppIdle ==
    /\ hpc = [t \in Threads |-> "idle"]
    /\ client = [t \in Threads |-> "-"]
    /\ sector = [t \in Threads |-> <<>>]
    /\ market_data = [t \in Threads |-> NoData]
    /\ analysis_result = [t \in Threads |-> NoAnalysis]
    /\ response = [t \in Threads |-> NoResponse]
    /\ trace = [t \in Threads |-> <<>>]
    /\ cache0 = [t \in Threads |-> [x \in {} |-> 0]]
    /\ win0 = [t \in Threads |-> <<>>]

\* ------------------------------------------------- InMemoryCache, callers at once
NoOp == [op |-> "-", key |-> "-", value |-> "-", ttl |-> 0]

ConcIdle ==
    /\ cache_lock = "free"
    /\ cpc = [t \in Threads |-> "idle"]
    /\ cop = [t \in Threads |-> NoOp]
    /\ cret = [t \in Threads |-> "-"]
    /\ expired_keys = [t \in Threads |-> {}]
    /\ cops = 0

LimiterInit ==
    /\ limits = [id \in Identifiers |-> 0]
    /\ entries = <<>>
    /\ rlock = "free"
    /\ pc = [t \in Threads |-> "idle"]
    /\ ident = [t \in Threads |-> "-"]
    /\ entry = [t \in Threads |-> 0]
    /\ pre = [t \in Threads |-> <<>>]
    /\ checked_at = [t \in Threads |-> None]
    /\ decision = [t \in Threads |-> "-"]
    /\ reset_time = [t \in Threads |-> None]
    /\ remaining = [t \in Threads |-> None]
    /\ calls = 0

\* The variables of the specifications further down, at rest.
Idle ==
    /\ AppIdle
    /\ ConcIdle
    /\ elock = <<>>
    /\ retry = None

RestIdle == budget = MaxCalls /\ Idle

Init == now = 0 /\ LimiterInit /\ CacheInit /\ KeyIdle /\ RestIdle

InitKey ==
    /\ now = 0 /\ LimiterInit /\ CacheInit /\ RestIdle
    /\ args \in ListsOf(StringsOf(MaxChars), MaxArgs)
                   \X ListsOf(StringsOf(MaxChars), MaxArgs)
    /\ kwargs \in KwArgSets \X KwArgSets
    /\ keys = <<>>

CallStep(t) ==
    \/ AcquireRegistryLock(t)
    \/ CreateEntry(t)
    \/ FetchEntry(t)
    \/ CanMakeRequest(t)
    \/ RejectWithResetTime(t)
    \/ RecordRequest(t)
    \/ LogRemaining(t)
    \/ HeadersRemaining(t)
    \/ HeadersResetTime(t)

Step(t) == CallStep(t) \/ Return(t)

\* Any number of callers at once.
Next ==
    \/ Tick
    \/ \E t \in Threads : StartCheck(t) \/ StartHeaders(t) \/ Step(t)

Spec == Init /\ [][Next]_vars

\* One call after another: a call begins only when no other is in progress.
Quiet == \A t \in Threads : pc[t] = "idle"

NextSeq ==
    \/ Tick
    \/ \E t \in Threads : (Quiet /\ (StartCheck(t) \/ StartHeaders(t))) \/ Step(t)

SpecSeq == Init /\ [][NextSeq]_vars

\* The cache alone: each operation runs under self._lock, start to end.
SpecCache == Init /\ [][NextCache]_vars

\* generate_key applied to two argument lists.
SpecKey == InitKey /\ [][GenerateKeys]_vars

\* ------------------------------------------------- analyze_sector
\* The handler is a coroutine on the server's event loop.  Nothing it awaits
\* suspends it: _search_web and _generate_insights call their libraries
\* synchronously (DDGS().text, model.generate_content).  A request therefore
\* runs from start to end before the loop takes up the next one.
MaxRequests == Limit + 1
AppCalls == 2 * MaxRequests
\* The requests come from one address, so that the limit is reached.
Clients == {CHOOSE ip \in Identifiers : TRUE}

NoRequest == \A t \in Threads : hpc[t] = "idle"

At(t, label) == hpc' = [hpc EXCEPT ![t] = label]
Called(t, names) == trace' = [trace EXCEPT ![t] = @ \o names]
Respond(t, r) == response' = [response EXCEPT ![t] = r]

\* client_ip = request.client.host; rate_limiter.check_rate_limit(client_ip)
Receive(t) ==
    /\ NoRequest
    /\ calls + 2 <= budget
    /\ \E ip \in Clients, name \in Sectors :
        /\ StartCheckOp(t)
        /\ ident'[t] = ip
        /\ client' = [client EXCEPT ![t] = ip]
        /\ sector' = [sector EXCEPT ![t] = name]
        /\ win0' = [win0 EXCEPT ![t] = Window(ip)]
    /\ cache0' = [cache0 EXCEPT ![t] = cache]
    /\ At(t, "check")
    /\ Called(t, <<"check_rate_limit">>)
    /\ UNCHANGED <<cvars, kvars, notApp, market_data, analysis_result, response>>

\* The steps of check_rate_limit and get_rate_limit_headers the handler is in.
InLimiter(t) ==
    /\ hpc[t] \in {"check", "headers"}
    /\ CallStep(t)

\* check_rate_limit raised HTTPException(429, headers = {...}); the handler
\* re-raises it (except HTTPException: raise) and http_exception_handler answers
Refused(t) ==
    /\ hpc[t] = "check" /\ pc[t] = "done" /\ decision[t] = "Rejected"
    /\ ReturnOp(t)
    /\ Respond(t, http_exception_handler(
                     HTTPException(429, RateLimitHeaders(Limit, 0, reset_time[t]))))
    /\ At(t, "sent")
    /\ UNCHANGED <<cvars, kvars, notApp, client, sector, market_data,
                   analysis_result, trace, cache0, win0>>

\* check_rate_limit returned
Admitted(t) ==
    /\ hpc[t] = "check" /\ pc[t] = "done" /\ decision[t] = "Accepted"
    /\ ReturnOp(t)
    /\ At(t, "admitted")
    /\ UNCHANGED <<cvars, kvars, notApp, client, sector, market_data,
                   analysis_result, response, trace, cache0, win0>>

\* headers = rate_limiter.get_rate_limit_headers(client_ip)
CallHeaders(t) ==
    /\ hpc[t] = "admitted"
    /\ StartHeadersOp(t)
    /\ ident'[t] = client[t]
    /\ At(t, "headers")
    /\ Called(t, <<"get_rate_limit_headers">>)
    /\ UNCHANGED <<cvars, kvars, notApp, client, sector, market_data,
                   analysis_result, response, cache0, win0>>

\* for key, value in headers.items(): response.headers[key] = value
SetHeaders(t) ==
    /\ hpc[t] = "headers" /\ pc[t] = "done"
    /\ ReturnOp(t)
    /\ Respond(t, [response[t] EXCEPT
                     !.headers = RateLimitHeaders(Limit, remaining[t], reset_time[t])])
    /\ At(t, "validate")
    /\ UNCHANGED <<cvars, kvars, notApp, client, sector, market_data,
                   analysis_result, trace, cache0, win0>>

\* is_safe_input, sanitize_sector_name, validate_sector_length: each failure
\* raises HTTPException(400); then
\* cached_report = cache.get(cache.generate_key("analysis", sanitized_sector))
\* if cached_report: return AnalysisResponse(..., "Analysis retrieved from cache")
Lookup(t) ==
    /\ hpc[t] = "validate"
    /\ LET sanitized_sector == sanitize_sector_name(sector[t])
           cache_key == AnalysisKey(sanitized_sector)
           cached_report == GetResult(cache, cache_key, now)
       IN IF \/ ~is_safe_input(sector[t])
             \/ SanitizeRaises(sector[t])
             \/ validate_sector_length(sanitized_sector)
          THEN /\ Respond(t, http_exception_handler(HTTPException(400, NoHeaders)))
               /\ At(t, "sent")
               /\ UNCHANGED <<cache, trace>>
          ELSE /\ cache' = AfterGet(cache, cache_key, now)
               /\ Called(t, <<"cache.get">>)
               /\ IF Truthy(cached_report)
                  THEN /\ Respond(t, Ok(response[t].headers, cached_report,
                                        "Analysis retrieved from cache"))
                       /\ At(t, "sent")
                  ELSE /\ At(t, "collect")
                       /\ UNCHANGED response
    /\ UNCHANGED <<now, lvars, last, kvars, notApp, client, sector, market_data,
                   analysis_result, cache0, win0>>

\* market_data = await data_collector.collect_market_data(sanitized_sector)
Collect(t) ==
    /\ hpc[t] = "collect"
    /\ \E found \in BOOLEAN :
        market_data' = [market_data EXCEPT
            ![t] = collect_market_data(sanitize_sector_name(sector[t]), found)]
    /\ Called(t, <<"collect_market_data">>)
    /\ At(t, "analyze")
    /\ UNCHANGED <<now, lvars, cvars, kvars, notApp, client, sector,
                   analysis_result, response, cache0, win0>>

\* analysis_result = await ai_analyzer.analyze_market_data(market_data)
Analyze(t) ==
    /\ hpc[t] = "analyze"
    /\ \E answered \in BOOLEAN :
        analysis_result' = [analysis_result EXCEPT
            ![t] = analyze_market_data(market_data[t], answered)]
    /\ Called(t, <<"analyze_market_data">>)
    /\ At(t, "render")
    /\ UNCHANGED <<now, lvars, cvars, kvars, notApp, client, sector, market_data,
                   response, cache0, win0>>

\* markdown_report = report_generator.generate_report(analysis_result)
\* cache.set(cache_key, markdown_report, settings.cache_ttl_seconds)
\* return AnalysisResponse(..., "Analysis completed successfully");
\* an exception of generate_report becomes HTTPException(500)
RenderAndStore(t) ==
    /\ hpc[t] = "render"
    /\ LET cache_key == AnalysisKey(sanitize_sector_name(sector[t]))
           markdown_report == generate_report(analysis_result[t])
       IN \E rendered \in BOOLEAN :
            IF rendered
            THEN /\ cache' = AfterSet(cache, cache_key, markdown_report,
                                      cache_ttl_seconds, now)
                 /\ Called(t, <<"generate_report", "cache.set">>)
                 /\ Respond(t, Ok(response[t].headers, markdown_report,
                                  "Analysis completed successfully"))
            ELSE /\ Called(t, <<"generate_report">>)
                 /\ Respond(t, http_exception_handler(HTTPException(500, NoHeaders)))
                 /\ UNCHANGED cache
    /\ At(t, "sent")
    /\ UNCHANGED <<now, lvars, last, kvars, notApp, client, sector, market_data,
                   analysis_result, cache0, win0>>

\* The response has gone out; the task ends.
Finish(t) ==
    /\ hpc[t] = "sent"
    /\ At(t, "idle")
    /\ client' = [client EXCEPT ![t] = "-"]
    /\ sector' = [sector EXCEPT ![t] = <<>>]
    /\ market_data' = [market_data EXCEPT ![t] = NoData]
    /\ analysis_result' = [analysis_result EXCEPT ![t] = NoAnalysis]
    /\ response' = [response EXCEPT ![t] = NoResponse]
    /\ trace' = [trace EXCEPT ![t] = <<>>]
    /\ cache0' = [cache0 EXCEPT ![t] = [x \in {} |-> 0]]
    /\ win0' = [win0 EXCEPT ![t] = <<>>]
    /\ UNCHANGED <<now, lvars, cvars, kvars, notApp>>

Handle(t) ==
    \/ Receive(t)
    \/ InLimiter(t)
    \/ Refused(t)
    \/ Admitted(t)
    \/ CallHeaders(t)
    \/ SetHeaders(t)
    \/ Lookup(t)
    \/ Collect(t)
    \/ Analyze(t)
    \/ RenderAndStore(t)
    \/ Finish(t)

\* The event loop runs one handler at a time; which task it is does not matter.
Server == CHOOSE t \in Threads : TRUE

NextApp == Tick \/ Handle(Server)

InitApp ==
    /\ now = 0 /\ LimiterInit /\ CacheInit /\ KeyIdle
    /\ budget = AppCalls
    /\ Idle

\* Requests to GET /analyze/{sector}, served one after another.
SpecApp == InitApp /\ [][NextApp]_vars

\* ------------------------------------------------- InMemoryCache, callers at once
\* Each caller is a thread; `with self._lock:` is a step that waits for the
\* lock, the body runs in the steps after it, and the last step of the body
\* releases the lock.
MaxConcOps == 3

\* `with self._lock:` proceeds when nobody holds the lock
LockIgnored(holder) == TRUE
LockFree(holder) == holder = "free"

CAt(t, label) == cpc' = [cpc EXCEPT ![t] = label]
CReturns(t, value) == cret' = [cret EXCEPT ![t] = value]

\* The calls a thread may make.  set reads `ttl or self.default_ttl` before
\* it takes the lock.
CacheCalls ==
    {[op |-> "get", key |-> key, value |-> "-", ttl |-> 0] : key \in Keys}
    \cup {[op |-> "set", key |-> key, value |-> value, ttl |-> EffectiveTtl(ttl)] :
            key \in Keys, value \in Values, ttl \in 0..MaxTtl}
    \cup {[op |-> "delete", key |-> key, value |-> "-", ttl |-> 0] : key \in Keys}
    \cup {[op |-> o, key |-> "-", value |-> "-", ttl |-> 0] :
            o \in {"clear", "cleanup_expired"}}

\* A thread calls get, set, delete, clear or cleanup_expired.
CacheCall(t) ==
    /\ cpc[t] = "idle"
    /\ cops < MaxConcOps
    /\ cops' = cops + 1
    /\ \E call \in CacheCalls : cop' = [cop EXCEPT ![t] = call]
    /\ CAt(t, "lock")
    /\ UNCHANGED <<now, lvars, cvars, kvars, notConc, cache_lock, cret, expired_keys>>

\* with self._lock:
CacheAcquire(t) ==
    /\ cpc[t] = "lock"
    /\ LockFree(cache_lock)
    /\ cache_lock' = t
    /\ CAt(t, cop[t].op)
    /\ UNCHANGED <<now, lvars, cvars, kvars, notConc, cop, cret, expired_keys, cops>>

Release == cache_lock' = "free"

\* get: if key in self._cache: entry = self._cache[key];
\* if not entry.is_expired(): return entry.value
GetCheck(t) ==
    /\ cpc[t] = "get"
    /\ LET key == cop[t].key
       IN IF key \in DOMAIN cache /\ IsExpired(cache[key], now)
          THEN /\ CAt(t, "evict")
               /\ UNCHANGED <<cache_lock, cret>>
          ELSE /\ CReturns(t, GetResult(cache, key, now))
               /\ Release
               /\ CAt(t, "done")
    /\ UNCHANGED <<now, lvars, cvars, kvars, notConc, cop, expired_keys, cops>>

\* get: del self._cache[key]; return None
GetEvict(t) ==
    /\ cpc[t] = "evict"
    /\ cache' = Without(cache, {cop[t].key})
    /\ CReturns(t, "None")
    /\ Release
    /\ CAt(t, "done")
    /\ UNCHANGED <<now, lvars, last, kvars, notConc, cop, expired_keys, cops>>

\* set: self._cache[key] = CacheEntry(value, ttl)
SetBody(t) ==
    /\ cpc[t] = "set"
    /\ cache' = AfterSet(cache, cop[t].key, cop[t].value, cop[t].ttl, now)
    /\ CReturns(t, "None")
    /\ Release
    /\ CAt(t, "done")
    /\ UNCHANGED <<now, lvars, last, kvars, notConc, cop, expired_keys, cops>>

\* delete: if key in self._cache: del self._cache[key]
DeleteBody(t) ==
    /\ cpc[t] = "delete"
    /\ cache' = AfterDelete(cache, cop[t].key)
    /\ CReturns(t, "None")
    /\ Release
    /\ CAt(t, "done")
    /\ UNCHANGED <<now, lvars, last, kvars, notConc, cop, expired_keys, cops>>

\* clear: self._cache.clear()
ClearBody(t) ==
    /\ cpc[t] = "clear"
    /\ cache' = Without(cache, DOMAIN cache)
    /\ CReturns(t, "None")
    /\ Release
    /\ CAt(t, "done")
    /\ UNCHANGED <<now, lvars, last, kvars, notConc, cop, expired_keys, cops>>

\* cleanup_expired: expired_keys = [key for key, entry in ... if entry.is_expired()]
CleanupScan(t) ==
    /\ cpc[t] = "cleanup_expired"
    /\ expired_keys' = [expired_keys EXCEPT ![t] = ExpiredKeys(cache, now)]
    /\ CAt(t, "sweep")
    /\ UNCHANGED <<now, lvars, cvars, kvars, notConc, cache_lock, cop, cret, cops>>

\* cleanup_expired: for key in expired_keys: del self._cache[key]
CleanupSweep(t) ==
    /\ cpc[t] = "sweep"
    /\ cache' = Without(cache, expired_keys[t])
    /\ CReturns(t, "None")
    /\ Release
    /\ CAt(t, "done")
    /\ UNCHANGED <<now, lvars, last, kvars, notConc, cop, expired_keys, cops>>

\* The operation returns to its caller.
CacheReturn(t) ==
    /\ cpc[t] = "done"
    /\ CAt(t, "idle")
    /\ cop' = [cop EXCEPT ![t] = NoOp]
    /\ cret' = [cret EXCEPT ![t] = "-"]
    /\ expired_keys' = [expired_keys EXCEPT ![t] = {}]
    /\ UNCHANGED <<now, lvars, cvars, kvars, notConc, cache_lock, cops>>

CacheStepOf(t) ==
    \/ CacheCall(t)
    \/ CacheAcquire(t)
    \/ GetCheck(t)
    \/ GetEvict(t)
    \/ SetBody(t)
    \/ DeleteBody(t)
    \/ ClearBody(t)
    \/ CleanupScan(t)
    \/ CleanupSweep(t)
    \/ CacheReturn(t)

NextCacheConc == Tick \/ \E t \in Threads : CacheStepOf(t)

\* The cache under any number of callers at once.
SpecCacheConc == Init /\ [][NextCacheConc]_vars

\* ------------------------------------------------- RateLimiter, locks spelled out
\* Each RateLimitEntry method is `with self.lock:` around its body: a step
\* that waits for the entry's lock, then the body, whose end releases it.
\* Every thread makes one call.
LockCalls == Cardinality(Threads)

notLocks == <<cvars, kvars, budget, avars, xvars, retry>>

\* The positions at which a thread is about to run, or is running, a method
\* of its entry: can_make_request, get_reset_time, record_request, get_remaining.
EntryMethods == {"can", "reset", "record", "log", "h_remaining", "h_reset"}

Holds(t) == entry[t] # 0 /\ elock[entry[t]] = t

\* with self.lock: (leaving the block)
StillHeld(locks, e) == locks
Released(locks, e) == [locks EXCEPT ![e] = "free"]

\* self._limits[identifier] = RateLimitEntry(...): the new entry's Lock()
LockedCreateEntry(t) ==
    /\ CreateEntryOp(t)
    /\ elock' = IF Len(entries') > Len(entries) THEN Append(elock, "free")
                ELSE elock
    /\ UNCHANGED notLocks

\* with self.lock: (entering the block)
EnterEntryLock(t) ==
    /\ pc[t] \in EntryMethods
    /\ elock[entry[t]] = "free"
    /\ elock' = [elock EXCEPT ![entry[t]] = t]
    /\ UNCHANGED <<now, lvars, notLocks>>

\* The body of the method the thread is in, and the release of the lock.
InEntryLock(t) ==
    /\ Holds(t)
    /\ \/ CanMakeRequestOp(t)
       \/ RejectWithResetTimeOp(t)
       \/ RecordRequestOp(t)
       \/ LogRemainingOp(t)
       \/ HeadersRemainingOp(t)
       \/ HeadersResetTimeOp(t)
    /\ elock' = Released(elock, entry[t])
    /\ UNCHANGED notLocks

\* The steps of a call that is under way.
LockedStep(t) ==
    \/ AcquireRegistryLock(t)
    \/ LockedCreateEntry(t)
    \/ FetchEntry(t)
    \/ EnterEntryLock(t)
    \/ InEntryLock(t)

NextLocks ==
    \/ Tick
    \/ \E t \in Threads :
         StartCheck(t) \/ StartHeaders(t) \/ LockedStep(t) \/ Return(t)

InitLocks ==
    /\ now = 0 /\ LimiterInit /\ CacheInit /\ KeyIdle
    /\ budget = LockCalls
    /\ Idle

SpecLocks == InitLocks /\ [][NextLocks]_vars

\* The scheduler runs every thread that can take a step, and a thread that
\* waits for a lock gets it if the lock is free again and again.
FairLocks ==
    \A t \in Threads :
        /\ WF_vars(LockedStep(t))
        /\ SF_vars(AcquireRegistryLock(t))
        /\ SF_vars(EnterEntryLock(t))

SpecLocksFair == SpecLocks /\ FairLocks

\* ------------------------------------------------- check_rate_limit, with the
\* reset time of the last rejection kept
\* Enough calls for Limit + 1 admissions, a rejection and a retry.
RetryCalls == Limit + 3

notRetry == <<cvars, kvars, budget, avars, xvars, elock>>

\* All calls are for one identifier.
RetryClient == CHOOSE id \in Identifiers : TRUE

RetryStart(t) ==
    /\ StartCheckOp(t)
    /\ ident'[t] = RetryClient
    /\ UNCHANGED <<notRetry, retry>>

\* The rejection carries reset_time: remember it.
RetryReject(t) ==
    /\ RejectWithResetTimeOp(t)
    /\ retry' = reset_time'[t]
    /\ UNCHANGED notRetry

\* A request is accepted: the remembered rejection is over.
RetryRecord(t) ==
    /\ RecordRequestOp(t)
    /\ retry' = None
    /\ UNCHANGED notRetry

RetryStep(t) ==
    \/ RetryStart(t)
    \/ AcquireRegistryLock(t)
    \/ CreateEntry(t)
    \/ FetchEntry(t)
    \/ CanMakeRequest(t)
    \/ RetryReject(t)
    \/ RetryRecord(t)
    \/ LogRemaining(t)
    \/ Return(t)

NextRetry == Tick \/ \E t \in Threads : RetryStep(t)

InitRetry ==
    /\ now = 0 /\ LimiterInit /\ CacheInit /\ KeyIdle
    /\ budget = RetryCalls
    /\ Idle

\* check_rate_limit for one identifier, any number of callers at once.
SpecRetry == InitRetry /\ [][NextRetry]_vars

\* ------------------------------------------------- properties: rate limiter
\* The timestamps of `reqs` less than one hour old at time t.
Live(reqs, t) == SelectSeq(reqs, LAMBDA r : t - r < Hour)
LiveCount(reqs, t) == Cardinality({i \in DOMAIN reqs : t - reqs[i] < Hour})
Earliest(S) == CHOOSE m \in S : \A x \in S : m <= x
Decided(t) == pc[t] = "done" /\ decision[t] \in {"Accepted", "Rejected"}

\* C1: under any interleaving of concurrent check_rate_limit calls, no
\* identifier ever has more recorded (accepted) requests inside one rolling
\* hour than the limit.
C1_NoDoubleAdmit ==
    \A e \in DOMAIN entries :
        LiveCount(entries[e].requests, now) <= entries[e].limit

\* C2: for calls made one after another, a call is Accepted iff the
\* identifier's timestamps within the hour before the check number fewer than
\* the limit; an Accepted call adds exactly one timestamp to the window and a
\* Rejected call adds none.
C2_SequentialAdmission ==
    \A t \in Threads :
        Decided(t) =>
            /\ (decision[t] = "Accepted")
                  <=> (LiveCount(pre[t], checked_at[t]) < Limit)
            /\ decision[t] = "Accepted" =>
                  \E ts \in checked_at[t]..now :
                      Live(Window(ident[t]), now) = Live(Append(pre[t], ts), now)
            /\ decision[t] = "Rejected" =>
                  Live(Window(ident[t]), now) = Live(pre[t], now)

\* L calls were accepted inside one window and the next one is rejected.
C2_Witness ==
    \E t \in Threads :
        /\ Decided(t) /\ decision[t] = "Rejected"
        /\ Len(pre[t]) = Limit
        /\ LiveCount(pre[t], checked_at[t]) = Limit

\* C3: once an identifier has used up its limit, a call checked more than one
\* hour after the oldest recorded request is Accepted again.
C3_WindowSlides ==
    \A t \in Threads :
        (/\ Decided(t)
         /\ Len(pre[t]) >= Limit
         /\ checked_at[t] - Earliest({pre[t][i] : i \in DOMAIN pre[t]}) > Hour)
            => decision[t] = "Accepted"

C3_Witness ==
    \E t \in Threads :
        /\ Decided(t) /\ decision[t] = "Accepted"
        /\ Len(pre[t]) >= Limit
        /\ checked_at[t] - Earliest({pre[t][i] : i \in DOMAIN pre[t]}) > Hour

\* C4: a step of a call on identifier a leaves the registry entry and the
\* window of every other identifier b as they were, and the admission
\* decision for an identifier depends on that identifier's window alone.
C4_Isolation ==
    [][\A t \in Threads :
          /\ pc'[t] # pc[t] =>
                LET a == IF pc[t] = "idle" THEN ident'[t] ELSE ident[t]
                IN \A b \in Identifiers \ {a} :
                       /\ limits'[b] = limits[b]
                       /\ Window(b)' = Window(b)
          /\ (pc[t] = "can" /\ pc'[t] # "can") =>
                ((pc'[t] = "record")
                    <=> (LiveCount(Window(ident[t]), now) < Limit))]_vars

\* One identifier has used up its limit and a call for another is Accepted.
C4_Witness ==
    \E t \in Threads : \E a \in Identifiers :
        /\ Decided(t) /\ decision[t] = "Accepted"
        /\ ident[t] # a
        /\ LiveCount(Window(a), now) >= Limit

\* C5: the remaining quota read for an identifier is max(0, limit - number of
\* its timestamps within the trailing hour), never negative, and the read
\* records no request.
C5_Remaining ==
    [][\A t \in Threads :
          /\ ((pc[t] = "h_remaining" /\ pc'[t] = "h_reset")
                \/ (pc[t] = "log" /\ pc'[t] = "done")) =>
                LET reqs == entries[entry[t]].requests
                    n == LiveCount(reqs, now)
                IN /\ remaining'[t] = (IF Limit - n > 0 THEN Limit - n ELSE 0)
                   /\ remaining'[t] >= 0
                   /\ entries'[entry[t]].requests = Live(reqs, now)
          /\ (pc[t] = "idle" /\ pc'[t] = "done") =>
                /\ remaining'[t] = Limit
                /\ entries' = entries]_vars

\* After N accepted requests inside the window, 0 < N < limit, the headers
\* report limit - N.
C5_Witness ==
    \E t \in Threads :
        /\ pc[t] = "h_reset"
        /\ Len(entries[entry[t]].requests) \in 1..(Limit - 1)
        /\ LiveCount(entries[entry[t]].requests, now)
              = Len(entries[entry[t]].requests)
        /\ remaining[t] = Limit - Len(entries[entry[t]].requests)

\* C6: a reset time, whenever read, is the earliest timestamp still within
\* the trailing hour plus one hour (now plus one hour when there is none), and
\* so never in the past.
C6_ResetTimeFromWindow ==
    [][\A t \in Threads :
          (reset_time[t] = None /\ reset_time'[t] # None) =>
              LET reqs == entries[entry[t]].requests
                  live == {reqs[i] : i \in {j \in DOMAIN reqs : now - reqs[j] < Hour}}
              IN /\ reset_time'[t] = (IF live # {} THEN Earliest(live) + Hour
                                                  ELSE now + Hour)
                 /\ reset_time'[t] >= now]_vars

\* C7: however first-time calls for an identifier interleave, one
\* RateLimitEntry is installed per identifier, every caller works on the entry
\* the registry holds, and no entry ever constructed has been replaced.
C7_OneEntryPerIdentifier ==
    /\ \A e \in DOMAIN entries : \E id \in Identifiers : limits[id] = e
    /\ Len(entries) = Cardinality({id \in Identifiers : Registered(id)})
    /\ \A t \in Threads : entry[t] # 0 => entry[t] = limits[ident[t]]

\* A caller that saw the identifier absent holds the registry lock and finds
\* the entry another caller installed in the meantime.
C7_Witness ==
    \E t \in Threads : pc[t] = "create" /\ Registered(ident[t])

\* ------------------------------------------------- properties: cache
CacheStep(op) == last' # last /\ last'.op = op

\* C8: get returns the stored value exactly when the key has an entry whose
\* expires_at has not passed, and absent otherwise; a get that finds the entry
\* expired removes it in that same call, and touches nothing else.
C8_GetHonoursExpiry ==
    [][CacheStep("get") =>
          LET key == last'.key
          IN IF key \in DOMAIN cache /\ now <= cache[key].expires_at
             THEN /\ last'.ret = cache[key].value
                  /\ cache' = cache
             ELSE /\ last'.ret = "None"
                  /\ key \notin DOMAIN cache'
                  /\ DOMAIN cache' = DOMAIN cache \ {key}
                  /\ \A x \in DOMAIN cache' : cache'[x] = cache[x]]_vars

\* A get found the key's entry expired, returned absent and removed it.
C8_Witness ==
    /\ last.op = "get" /\ last.had /\ last.ret = "None"
    /\ last.key \notin DOMAIN cache

\* C9: set on a key that has an entry replaces it: afterwards the key holds
\* the new value, expiring ttl after this set, and every other key is as it was.
C9_SetOverwrites ==
    [][(CacheStep("set") /\ last'.key \in DOMAIN cache /\ last'.ttl > 0) =>
          LET key == last'.key
          IN /\ DOMAIN cache' = DOMAIN cache
             /\ cache'[key].value = last'.value
             /\ cache'[key].expires_at = now + last'.ttl
             /\ \A x \in DOMAIN cache \ {key} : cache'[x] = cache[x]]_vars

\* A set made at a later time, with a ttl of its own, replaced the key's entry.
C9_Witness ==
    /\ last.op = "set" /\ last.had /\ last.ttl > 0
    /\ last.at > 0
    /\ cache[last.key] = [value |-> last.value, expires_at |-> last.at + last.ttl]

\* ------------------------------------------------- properties: generate_key
\* C10: equal argument lists give equal keys, and argument lists that differ
\* (in a part, in the order of the parts, or in how the text is split into
\* parts) give different keys.
C10_KeysTellArgumentsApart ==
    keys # <<>> =>
        ((keys[1] = keys[2]) <=> (args[1] = args[2] /\ kwargs[1] = kwargs[2]))

\* ------------------------------------------------- properties: analyze_sector
Range(seq) == {seq[i] : i \in DOMAIN seq}

\* The calls of a request that misses the cache, in the order the handler
\* makes them.
FullTrace ==
    <<"check_rate_limit", "get_rate_limit_headers", "cache.get",
      "collect_market_data", "analyze_market_data", "generate_report",
      "cache.set">>

\* The request passes is_safe_input, sanitize_sector_name and
\* validate_sector_length.
Valid(name) ==
    /\ is_safe_input(name)
    /\ ~SanitizeRaises(name)
    /\ ~validate_sector_length(sanitize_sector_name(name))

\* C11: a request the limiter rejects is answered with HTTP 429 carrying
\* X-RateLimit-Limit, X-RateLimit-Remaining = 0 and X-RateLimit-Reset, having
\* made no call but check_rate_limit and having left the cache as it was.
C11_RejectionAnswered ==
    [][\A t \in Threads :
        (hpc[t] = "check" /\ decision[t] = "Rejected" /\ hpc'[t] = "sent") =>
            /\ response'[t].status = 429
            /\ response'[t].headers = RateLimitHeaders(Limit, 0, reset_time[t])
            /\ trace'[t] = <<"check_rate_limit">>
            /\ cache' = cache0[t]]_vars

\* C12: an admitted, valid request looks up AnalysisKey(sanitized_sector).  If
\* the cache holds an unexpired value there, the request answers with that
\* value, marked as retrieved from the cache, having called neither collaborator;
\* otherwise it goes on to collect, analyze, render and store, in that order,
\* and the store puts the report under that key with cache_ttl_seconds.
C12_CacheBeforeCollaborators ==
    [][\A t \in Threads :
        LET cache_key == AnalysisKey(sanitize_sector_name(sector[t]))
            held == cache_key \in DOMAIN cache /\ ~IsExpired(cache[cache_key], now)
        IN /\ (hpc[t] = "validate" /\ hpc'[t] # "validate" /\ Valid(sector[t])) =>
                /\ trace'[t] = SubSeq(FullTrace, 1, 3)
                /\ IF held
                   THEN /\ hpc'[t] = "sent"
                        /\ response'[t].status = 200
                        /\ response'[t].report = cache[cache_key].value
                        /\ response'[t].message = "Analysis retrieved from cache"
                   ELSE hpc'[t] = "collect"
           /\ trace'[t] = SubSeq(FullTrace, 1, Len(trace'[t]))
           /\ ("cache.set" \in Range(trace'[t]) \ Range(trace[t])) =>
                /\ cache_key \in DOMAIN cache'
                /\ cache'[cache_key] =
                      CacheEntry(generate_report(analysis_result[t]),
                                 cache_ttl_seconds, now)
                /\ \A k \in DOMAIN cache' \ {cache_key} :
                      k \in DOMAIN cache /\ cache'[k] = cache[k]
                /\ response'[t].report = generate_report(analysis_result[t])]_vars

\* C12's case: a request was answered from the cache.
C12_Witness ==
    \E t \in Threads :
        /\ hpc[t] = "sent"
        /\ response[t].message = "Analysis retrieved from cache"
        /\ trace[t] = SubSeq(FullTrace, 1, 3)

\* The search or the model failed during the request.
CollaboratorFailed(t) ==
    \/ market_data[t].results = "fallback data"
    \/ analysis_result[t].insights = "fallback analysis"

\* The client's window is what it was on arrival plus one timestamp, less
\* what has been pruned since; the new timestamp is there unless the request
\* itself has lasted an hour.
OneTimestampRecorded(t) ==
    \E at \in 0..now, k \in 1..(Len(win0[t]) + 2) :
        /\ Window(client[t]) =
              SubSeq(Append(win0[t], at), k, Len(win0[t]) + 1)
        /\ now - at < Hour => k <= Len(win0[t]) + 1

\* C13: once a request in which the data collector or the analyzer failed has
\* been answered, every entry of the cache was there before the request, and
\* the client's window has gained exactly the one timestamp of the request.
C13_FailureLeavesNoEntry ==
    \A t \in Threads :
        (hpc[t] = "sent" /\ CollaboratorFailed(t)) =>
            /\ \A k \in DOMAIN cache :
                  k \in DOMAIN cache0[t] /\ cache[k] = cache0[t][k]
            /\ OneTimestampRecorded(t)

\* ------------------------------------------------- properties: concurrent cache
\* The positions inside a `with self._lock:` body.
InBody == {"get", "evict", "set", "delete", "clear", "cleanup_expired", "sweep"}

\* C14: cache operations exclude one another.  At most one thread is inside a
\* locked body; a get or cleanup_expired that removes a key removes an entry
\* that is expired, never one a concurrent set has written since; a get
\* returns the unexpired value the store holds for its key when it returns,
\* None if there is none; a completed set leaves its value under its key.
C14_CacheAtomic ==
    [][/\ Cardinality({t \in Threads : cpc[t] \in InBody}) <= 1
       /\ \A t \in Threads :
            /\ (cpc[t] \in {"evict", "sweep"} /\ cpc'[t] = "done") =>
                  \A k \in DOMAIN cache \ DOMAIN cache' : IsExpired(cache[k], now)
            /\ (cop[t].op = "get" /\ cpc[t] # "done" /\ cpc'[t] = "done") =>
                  cret'[t] = GetResult(cache, cop[t].key, now)
            /\ (cpc[t] = "set" /\ cpc'[t] = "done") =>
                  /\ cop[t].key \in DOMAIN cache'
                  /\ cache'[cop[t].key] = CacheEntry(cop[t].value, cop[t].ttl, now)]_vars

\* C14's case: a get has found its key expired and is about to delete it
\* while a set for the same key waits for the lock.
C14_Witness ==
    \E t \in Threads, u \in Threads :
        /\ cpc[t] = "evict"
        /\ cpc[u] = "lock" /\ cop[u].op = "set" /\ cop[u].key = cop[t].key

\* ------------------------------------------------- properties: locks
\* The locks a thread holds: the registry lock and entry locks.
LocksHeld(t) ==
    (IF rlock = t THEN 1 ELSE 0)
    + Cardinality({e \in DOMAIN elock : elock[e] = t})

\* C15: the rate limiter cannot deadlock.  A thread that waits for or holds
\* the registry lock holds no entry lock; no thread ever holds two locks; and
\* with a fair scheduler every call that has begun reaches its result.
C15_NoDeadlock ==
    /\ [](\A t \in Threads :
            /\ (pc[t] = "lock" \/ rlock = t) =>
                  \A e \in DOMAIN elock : elock[e] # t
            /\ LocksHeld(t) <= 1)
    /\ \A t \in Threads : (pc[t] # "idle") ~> (pc[t] = "done")

\* C15's case: a thread waits for an entry lock that another thread holds.
C15_Witness ==
    \E t \in Threads, u \in Threads :
        /\ t # u
        /\ pc[t] \in EntryMethods /\ pc[u] \in EntryMethods
        /\ entry[t] = entry[u]
        /\ elock[entry[u]] = u

\* ------------------------------------------------- properties: retry time
\* C16: after a rejection with reset time T, and until a request is accepted,
\* a call that runs alone is Rejected if its check is before T and Accepted if
\* its check is at or after T.
C16_RetryTimeExact ==
    [][\A t \in Threads :
        (/\ pc[t] = "can" /\ pc'[t] # "can"
         /\ retry # None
         /\ \A u \in Threads \ {t} : pc[u] = "idle") =>
            IF now < retry THEN pc'[t] = "reset" ELSE pc'[t] = "record"]_vars
====
